---- MODULE Spec2Model ----
(***************************************************************************)
(* A model of src/src/App.jsx: the local-date codec (formatDateLocal,      *)
(* parseLocalDate), the synthetic event generator                          *)
(* (generateStevnerForRange), the date-range filter (isEventWithinRange,   *)
(* visibleRanges, the popup's event list) and the dataset load effect.     *)
(*                                                                         *)
(* JavaScript values are modelled as follows.                              *)
(*   string     a sequence of one-character strings, <<"A","B","C">>; a    *)
(*              character without a TLA+ literal is written as its \uXXXX  *)
(*              escape, one element of the sequence                        *)
(*   number     [t |-> "number", n |-> an integer], NaN is [t |-> "NaN"]   *)
(*   undefined  [t |-> "undefined"] where a number was expected            *)
(*   Date       [kind |-> "date", day |-> local day number counted from    *)
(*              1970-01-01, ms |-> millisecond of that local day];         *)
(*              Invalid Date is kind "invalid", null is kind "null"        *)
(* Local wall-clock time is taken as a monotone time line (no DST jump),   *)
(* tz milliseconds ahead of UTC.                                           *)
(***************************************************************************)
EXTENDS Integers, Sequences, FiniteSets, TLC

VARIABLES
    pc,          \* position of the load effect's promise chain
    response,    \* what the data source answered (outcome and body)
    failedAt,    \* the step whose exception the .catch handler received
    ranges,      \* useState: ranges
    loading,     \* useState: loading
    error,       \* useState: error (a string, or Null)
    startDate,   \* useState: startDate
    endDate,     \* useState: endDate
    filtersOpen, \* useState: filtersOpen
    memo,        \* useMemo cell of visibleRanges: its dependencies and value
    view,        \* what the last render put on the screen
    today,       \* the clock: the value of new Date()
    tz,          \* the host's time zone: local time minus UTC, in ms
    reads,       \* the clock as the load effect's map callbacks found it
    call,        \* arguments of a call of one of the pure helpers
    ret          \* results of the calls made so far

vars == <<pc, response, failedAt, ranges, loading, error, startDate, endDate,
          filtersOpen, memo, view, today, tz, reads, call, ret>>

-----------------------------------------------------------------------------
(* JavaScript numbers, strings and the Date arithmetic of ECMAScript.      *)

\* const x = e: the value of the one expression in S, computed once.
Const(S) == CHOOSE x \in S : TRUE

Num(n) == [t |-> "number", n |-> n]
NaN == [t |-> "NaN", n |-> 0]
Undefined == [t |-> "undefined", n |-> 0]

\* ToBoolean of a number, NaN or undefined.
Truthy(v) == v.t = "number" /\ v.n # 0

DigitChars == <<"0", "1", "2", "3", "4", "5", "6", "7", "8", "9">>

IsDigit(c) == \E i \in 1..10 : DigitChars[i] = c

DigitVal(c) == (CHOOSE i \in 1..10 : DigitChars[i] = c) - 1

RECURSIVE Digits(_)
Digits(n) == IF n < 10 THEN <<DigitChars[n + 1]>>
             ELSE Digits(n \div 10) \o <<DigitChars[(n % 10) + 1]>>

\* String(n) for an integer n.
ToStr(n) == IF n < 0 THEN <<"-">> \o Digits(0 - n) ELSE Digits(n)

\* String.prototype.padStart(len, "0").
RECURSIVE padStart(_, _)
padStart(s, len) == IF Len(s) >= len THEN s ELSE padStart(<<"0">> \o s, len)

\* String.prototype.split("-"): the pieces between the separators.
RECURSIVE SplitFrom(_, _, _)
SplitFrom(s, i, cur) ==
    IF i > Len(s) THEN <<cur>>
    ELSE IF s[i] = "-" THEN <<cur>> \o SplitFrom(s, i + 1, <<>>)
    ELSE SplitFrom(s, i + 1, Append(cur, s[i]))

Split(s) == SplitFrom(s, 1, <<>>)

\* StrWhiteSpaceChar of ECMAScript: WhiteSpace (TAB, VT, FF, SP, NBSP,
\* ZWNBSP and the Unicode space separators) and LineTerminator (LF, CR, LS,
\* PS).
WhiteSpaceChars ==
    {" ", "\t", "\n", "\f", "\r", "\\u000B", "\\u00A0", "\\uFEFF", "\\u1680",
     "\\u2000", "\\u2001", "\\u2002", "\\u2003", "\\u2004", "\\u2005",
     "\\u2006", "\\u2007", "\\u2008", "\\u2009", "\\u200A", "\\u2028",
     "\\u2029", "\\u202F", "\\u205F", "\\u3000"}

\* parseInt(s, 10): leading white space, an optional sign, then the longest
\* run of decimal digits; NaN when there is no digit.  (The result -0 of
\* "-0" is written 0: the code only tests it for falsiness.)
RECURSIVE SkipBlanks(_, _)
SkipBlanks(s, i) ==
    IF i <= Len(s) /\ s[i] \in WhiteSpaceChars THEN SkipBlanks(s, i + 1) ELSE i

RECURSIVE DigitRun(_, _, _)
DigitRun(s, i, acc) ==
    IF i <= Len(s) /\ IsDigit(s[i]) THEN DigitRun(s, i + 1, acc * 10 + DigitVal(s[i]))
    ELSE acc

signedDigits(s, j, sign) ==
    IF j <= Len(s) /\ IsDigit(s[j]) THEN Num(sign * DigitRun(s, j, 0)) ELSE NaN

parseIntFrom(s, i) ==
    IF i <= Len(s) /\ s[i] \in {"+", "-"}
    THEN signedDigits(s, i + 1, IF s[i] = "-" THEN -1 ELSE 1)
    ELSE signedDigits(s, i, 1)

parseInt(s) == parseIntFrom(s, SkipBlanks(s, 1))

\* Day number (days since 1970-01-01) of the first day of month m (1..12)
\* of the proleptic Gregorian year y: ECMAScript's MakeDay.
\* (The year is counted from 1 March; 146097 days make 400 years.)
DayOfEra(yoe, mp) == yoe * 365 + yoe \div 4 - yoe \div 100 + (153 * mp + 2) \div 5

DayFromMarchYear(yy, m) ==
    (yy \div 400) * 146097 + DayOfEra(yy % 400, (m + 9) % 12) - 719468

DayFromYearMonth(y, m) == DayFromMarchYear(IF m <= 2 THEN y - 1 ELSE y, m)

\* MakeDay(year, month, date) with a 0-based month that may overflow.
MakeDay(year, month, date) ==
    DayFromYearMonth(year + (month \div 12), (month % 12) + 1) + date - 1

\* The local [year, month (1..12), day of month] of a day number.
CivilOfMonth(era, yoe, doy, mp) ==
    [year |-> yoe + era * 400 + (IF mp < 10 THEN 0 ELSE 1),
     month |-> IF mp < 10 THEN mp + 3 ELSE mp - 9,
     day |-> doy - (153 * mp + 2) \div 5 + 1]

CivilOfDayOfYear(era, yoe, doy) == CivilOfMonth(era, yoe, doy, (5 * doy + 2) \div 153)

CivilOfYear(era, doe, yoe) ==
    CivilOfDayOfYear(era, yoe, doe - (365 * yoe + yoe \div 4 - yoe \div 100))

CivilOfDayOfEra(era, doe) ==
    CivilOfYear(era, doe,
                (doe - doe \div 1460 + doe \div 36524 - doe \div 146096) \div 365)

CivilOfShifted(zz) == CivilOfDayOfEra(zz \div 146097, zz % 146097)

Civil(z) == Const({CivilOfShifted(zz) : zz \in {z + 719468}})

DateV(day, ms) == [kind |-> "date", day |-> day, ms |-> ms]
InvalidDate == [kind |-> "invalid", day |-> 0, ms |-> 0]
Null == [kind |-> "null", day |-> 0, ms |-> 0]

\* ECMAScript's msPerDay.
DayMs == 24 * 3600000

\* UTC(t): the UTC day and millisecond of the instant that the local clock
\* shows as the given day and millisecond.
UTC(day, ms) == DateV(day + (ms - tz) \div DayMs, (ms - tz) % DayMs)

\* A time value is at most 8.64e15 ms, that is 100 000 000 days, from the epoch.
InTimeRange(utc) ==
    /\ utc.day >= -100000000
    /\ utc.day < 100000000 \/ (utc.day = 100000000 /\ utc.ms = 0)

\* local midnight of the day is an instant a Date can hold
TimeClipOK(day) == InTimeRange(UTC(day, 0))

\* new Date(y, monthIndex, d) with integer arguments: local midnight; a year
\* of 0..99 means 1900 + year.
TimeClip(day) == IF TimeClipOK(day) THEN DateV(day, 0) ELSE InvalidDate

NewDate(y, monthIndex, d) ==
    TimeClip(MakeDay(IF y >= 0 /\ y <= 99 THEN 1900 + y ELSE y, monthIndex, d))

getFullYear(date) == Civil(date.day).year
getMonth(date) == Civil(date.day).month - 1
getDate(date) == Civil(date.day).day

\* The local day and millisecond of a time value's instant: null converts
\* to the time value 0, the UTC epoch, which is tz past local 1970-01-01.
ToNumber(v) ==
    IF v.kind = "null" THEN DateV(tz \div DayMs, tz % DayMs) ELSE v

Before(x, y) == x.day < y.day \/ (x.day = y.day /\ x.ms < y.ms)

\* a < b on the values the filter compares: a Date is its time value, null
\* is 0 (the epoch), an Invalid Date is NaN and compares false.
LessThan(a, b) ==
    /\ a.kind # "invalid"
    /\ b.kind # "invalid"
    /\ Before(ToNumber(a), ToNumber(b))

\* Date.prototype.setHours(23, 59, 59, 999) on a Date object.
setHoursEndOfDay(date) ==
    IF date.kind = "date" THEN DateV(date.day, 86399999) ELSE date

-----------------------------------------------------------------------------
(* The LocalDate codec.                                                    *)

InvalidDateText == <<"N", "a", "N", "-", "N", "a", "N", "-", "N", "a", "N">>

\* `${y}-${m}-${d}`
template(y, m, d) == y \o <<"-">> \o m \o <<"-">> \o d

\* the year, the padded month and the padded day of a Date, joined
localFields(date) ==
    template(ToStr(getFullYear(date)),
             padStart(ToStr(getMonth(date) + 1), 2),
             padStart(ToStr(getDate(date)), 2))

\* date.toISOString().slice(0, 10) in a zone two hours ahead of UTC
formatDateLocal_utc(date) ==
    localFields(DateV(IF date.ms < 2 * 3600000 THEN date.day - 1 ELSE date.day, date.ms))

formatDateLocal(date) ==
    IF date.kind # "date" THEN InvalidDateText ELSE localFields(date)

\* const [y, m, d] = parts.map((n) => parseInt(n, 10)): a missing element
\* is undefined
component(parts, k) == IF k <= Len(parts) THEN parseInt(parts[k]) ELSE Undefined

dateOrNull(y, m, d) ==
    IF ~Truthy(y) \/ ~Truthy(m) \/ ~Truthy(d) THEN Null
    ELSE NewDate(y.n, m.n - 1, d.n)

dateOfParts(parts) ==
    dateOrNull(component(parts, 1), component(parts, 2), component(parts, 3))

parseLocalDate(dateStr) == dateOfParts(Split(dateStr))

-----------------------------------------------------------------------------
(* The date-range filter.  A call either returns a boolean or throws.      *)

Return(b) == [threw |-> FALSE, value |-> b]
Throw == [threw |-> TRUE, value |-> FALSE]

\* lines 136-146, with the three decoded values at hand
compare_exclusive(d, s, e, start, end) ==
    IF d.kind = "null" THEN Throw
    ELSE IF d.kind = "invalid" THEN Return(FALSE)
    ELSE IF start # <<>> /\ ~LessThan(s, d) THEN Return(FALSE)
    ELSE IF end # <<>> /\ e.kind = "null" THEN Throw
    ELSE IF end # <<>> /\ LessThan(setHoursEndOfDay(e), d) THEN Return(FALSE)
    ELSE Return(TRUE)

compare(d, s, e, start, end) ==
    IF d.kind = "null" THEN Throw                          \* null.getTime()
    ELSE IF d.kind = "invalid" THEN Return(FALSE)
    ELSE IF start # <<>> /\ LessThan(d, s) THEN Return(FALSE)
    ELSE IF end # <<>> /\ e.kind = "null" THEN Throw       \* null.setHours()
    ELSE IF end # <<>> /\ LessThan(setHoursEndOfDay(e), d) THEN Return(FALSE)
    ELSE Return(TRUE)

isEventWithinRange(dateStr, start, end) ==
    IF start = <<>> /\ end = <<>> THEN Return(TRUE)
    ELSE IF dateStr = <<>> THEN Return(FALSE)
    ELSE compare(parseLocalDate(dateStr), parseLocalDate(start), parseLocalDate(end),
                 start, end)

-----------------------------------------------------------------------------
(* The synthetic event generator.                                          *)

Str(s) == [t |-> "string", s |-> s]
UndefinedId == [t |-> "undefined", s |-> <<>>]

baseNames == <<"Banestevne", "Kretsstevne", "Treningskveld", "Klubbmesterskap">>

\* UTF-16 code units of the characters the identifiers of the model use.
CharCode(c) ==
    CASE c = "A" -> 65 [] c = "B" -> 66 [] c = "C" -> 67 [] c = "D" -> 68
      [] c = "a" -> 97 [] c = "b" -> 98 [] c = "-" -> 45 [] c = " " -> 32
      [] IsDigit(c) -> 48 + DigitVal(c)

charCodeAt0_zero(s) == IF Len(s) = 0 THEN Num(0) ELSE Num(CharCode(s[1]))

\* s.charCodeAt(0): NaN when the string is empty.
charCodeAt0(s) == IF Len(s) = 0 THEN NaN ELSE Num(CharCode(s[1]))

\* const count = 1 + ((range.skytterlag_id.charCodeAt(0) + index) % 2)
\* 1 + ((code + index) % 2), NaN when code is NaN
countOf_nobase(code, index) ==
    IF code.t = "NaN" THEN NaN ELSE Num((code.n + index) % 2)

countOf(code, index) ==
    IF code.t = "NaN" THEN NaN ELSE Num(1 + ((code.n + index) % 2))

count(range, index) == countOf(charCodeAt0(range.skytterlag_id.s), index)

name(index, i) == baseNames[((index + i) % Len(baseNames)) + 1]

maxAttendees_five(index, i) == 40 + ((index + i) % 5) * 20

maxAttendees(index, i) == 40 + ((index + i) % 4) * 20

rsvpOpen(index, i) == (index + i) % 3 # 0

Min(a, b) == IF a < b THEN a ELSE b

\* the value pushed: Math.min(attendees, maxAttendees)
attendeesOf(index, i, open, max) ==
    Min(IF open THEN 10 + ((index * 7 + i * 13) % (max - 10))
                ELSE 1 + ((index * 5 + i * 11) % max),
        max)

attendees(index, i) == attendeesOf(index, i, rsvpOpen(index, i), maxAttendees(index, i))

dayOffset(index, i) == 3 + ((index * 5 + i * 17) % 120)

\* const d = new Date(today); d.setDate(today.getDate() + dayOffset)
setDateOf(c, ms, offset) == DateV(MakeDay(c.year, c.month - 1, c.day + offset), ms)

setDate(now, offset) == Const({setDateOf(c, now.ms, offset) : c \in {Civil(now.day)}})

event(range, index, i, now) ==
    [id |-> range.skytterlag_id.s \o <<"-">> \o ToStr(i),
     name |-> name(index, i),
     rsvpOpen |-> rsvpOpen(index, i),
     attendees |-> attendees(index, i),
     maxAttendees |-> maxAttendees(index, i),
     date |-> Const({formatDateLocal(d) : d \in {setDate(now, dayOffset(index, i))}})]

\* for (let i = 0; i < count; i++) events.push(...)
RECURSIVE eventsFrom(_, _, _, _, _)
eventsFrom(range, index, i, n, now) ==
    IF n.t = "number" /\ i < n.n
    THEN <<event(range, index, i, now)>> \o eventsFrom(range, index, i + 1, n, now)
    ELSE <<>>

Returned(v) == [threw |-> FALSE, value |-> v]
Thrown == [threw |-> TRUE, value |-> <<>>]

\* range.skytterlag_id.charCodeAt throws a TypeError when the identifier is
\* undefined; `now` is the value new Date() yields inside the call.
generateStevnerForRange(range, index, now) ==
    IF index % 2 # 0 THEN Returned(<<>>)
    ELSE IF range.skytterlag_id.t # "string" THEN Thrown
    ELSE Returned(eventsFrom(range, index, 0, count(range, index), now))

-----------------------------------------------------------------------------
(* Bounds and input sets.                                                  *)

\* days on either side of a pivot day that the filter's inputs cover
FilterSpan == 1
\* the generator is called at positions 0..MaxIndex
MaxIndex == 7
\* calls of the generator recorded in one behaviour
MaxCalls == 2
\* days the clock may advance past its first day
MaxClockDays == 1
\* records of a dataset
MaxRecords == 3

\* 2025-06-15, the single-day example of the inclusive-boundary scenario,
\* 2025-01-01, the open-ended example, which sits on a year boundary, and
\* 1970-01-01, the day of the epoch that a null bound is compared as.
PivotDays == {MakeDay(2025, 5, 15), MakeDay(2025, 0, 1), MakeDay(1970, 0, 1)}

WellFormedCalendar ==
    {Civil(p + k) : p \in PivotDays, k \in (0 - FilterSpan)..FilterSpan}

\* The canonical YYYY-MM-DD text of a calendar day.
Text(c) ==
    padStart(ToStr(c.year), 4) \o <<"-">> \o padStart(ToStr(c.month), 2)
        \o <<"-">> \o padStart(ToStr(c.day), 2)

WellFormedTexts == {Text(c) : c \in WellFormedCalendar}

CalendarOf(s) == CHOOSE c \in WellFormedCalendar : Text(c) = s

\* c1 is an earlier calendar day than c2
Earlier(c1, c2) ==
    \/ c1.year < c2.year
    \/ c1.year = c2.year /\ c1.month < c2.month
    \/ c1.year = c2.year /\ c1.month = c2.month /\ c1.day < c2.day

NotADate == <<"n", "o", "t", "-", "a", "-", "d", "a", "t", "e">>
NoDay == <<"2", "0", "2", "5", "-", "0", "6">>
MonthZero == <<"2", "0", "2", "5", "-", "0", "0", "-", "1", "0">>
OutOfRange == <<"9", "9", "9", "9", "9", "9", "-", "0", "1", "-", "0", "1">>

\* non-empty strings that do not decode: parseLocalDate yields null
MalformedTexts == {NotADate, NoDay, MonthZero}

Malformed(s) == s \in MalformedTexts

\* 275760-09-13, the last day a Date can hold: its local midnight is an
\* instant in range east of UTC and on UTC, and out of range west of UTC
LastDay == <<"2", "7", "5", "7", "6", "0", "-", "0", "9", "-", "1", "3">>

\* strings that decode to a Date past the largest time value, in every time
\* zone or in some: Invalid Date
OutOfRangeTexts == {OutOfRange, LastDay}

\* a string that is not canonical and still decodes: parseInt skips the
\* white space before the month, "2025-\t6-15" is 15 June 2025
TabbedMonth == <<"2", "0", "2", "5", "-", "\t", "6", "-", "1", "5">>

LenientTexts == {TabbedMonth}

FilterTexts ==
    WellFormedTexts \cup MalformedTexts \cup OutOfRangeTexts \cup LenientTexts
        \cup {<<>>}

\* Time zones of the host: New York (winter), UTC, Oslo (winter).
TimeZones == {(0 - 5) * 3600000, 0 * 3600000, 1 * 3600000}

Clock0 == DateV(MakeDay(2025, 5, 1), 0)

NoResponse == [outcome |-> "none", data |-> [isArray |-> FALSE, items |-> <<>>]]
NoError == [isNull |-> TRUE, message |-> ""]

\* The component's state before the effect has run.
Mounted ==
    /\ response = NoResponse
    /\ failedAt = "none"
    /\ ranges = <<>>
    /\ loading = TRUE
    /\ error = NoError
    /\ startDate = <<>>
    /\ endDate = <<>>
    /\ filtersOpen = FALSE
    /\ memo = [deps |-> <<<<>>, <<>>, <<>>>>, value |-> <<>>]
    /\ view = [screen |-> "loading", markers |-> <<>>]

appVars == <<pc, response, failedAt, ranges, loading, error, startDate, endDate,
             filtersOpen, memo, view>>

-----------------------------------------------------------------------------
(* The filter as a pure function: one call on each combination of inputs.  *)

InitFilter ==
    /\ pc = "filter"
    /\ Mounted
    /\ today = Clock0
    /\ tz \in TimeZones
    /\ reads = <<>>
    /\ call \in [dateStr : FilterTexts, start : FilterTexts, end : FilterTexts]
    /\ ret = <<>>

FilterCall ==
    /\ pc = "filter"
    /\ ret = <<>>
    /\ ret' = <<isEventWithinRange(call.dateStr, call.start, call.end)>>
    /\ UNCHANGED <<appVars, today, tz, reads, call>>

SpecFilter == InitFilter /\ [][FilterCall]_vars

-----------------------------------------------------------------------------
(* The codec as a pure function: encode a Date, decode the text.           *)

CodecYears == {-1, 0, 1, 50, 99, 100, 1969, 2024, 2025}
CodecMonthDays == {<<1, 1>>, <<2, 28>>, <<2, 29>>, <<6, 15>>, <<12, 31>>}
CodecTimes == {0, 43200000, 86399999}

\* A Date object whose local fields are the given ones (setFullYear, setHours).
DateOf(y, m, d, ms) == DateV(MakeDay(y, m - 1, d), ms)

InitCodec ==
    /\ pc = "codec"
    /\ Mounted
    /\ today = Clock0
    /\ tz \in TimeZones
    /\ reads = <<>>
    /\ \E y \in CodecYears, md \in CodecMonthDays, ms \in CodecTimes :
           call = [date |-> DateOf(y, md[1], md[2], ms)]
    /\ ret = <<>>

CodecCall ==
    /\ pc = "codec"
    /\ ret = <<>>
    /\ ret' = <<[text |-> formatDateLocal(call.date),
                 date |-> parseLocalDate(formatDateLocal(call.date))]>>
    /\ UNCHANGED <<appVars, today, tz, reads, call>>

SpecCodec == InitCodec /\ [][CodecCall]_vars

-----------------------------------------------------------------------------
(* The generator as a function of (range, index) and of the clock it reads.*)

GenIds == {<<"A", "B", "C">>, <<"B", "2">>, <<"a">>, <<"1", "0">>, <<>>}

GenRanges == {[skytterlag_id |-> Str(s)] : s \in GenIds}
                 \cup {[skytterlag_id |-> UndefinedId]}

\* the clock is read every eight hours
ClockStep == 8 * 3600000

InitGen ==
    /\ pc = "generator"
    /\ Mounted
    /\ today \in {DateV(MakeDay(2025, 5, 1), 0), DateV(MakeDay(2025, 11, 31), 0)}
    /\ tz \in TimeZones
    /\ reads = <<>>
    /\ call \in [range : GenRanges, index : 0..MaxIndex, first : {today}]
    /\ ret = <<>>

GenCall ==
    /\ pc = "generator"
    /\ Len(ret) < MaxCalls
    /\ ret' = Append(ret, [now |-> today,
                           out |-> generateStevnerForRange(call.range, call.index, today)])
    /\ UNCHANGED <<appVars, today, tz, reads, call>>

\* Time passes between calls.
Tick ==
    /\ pc = "generator"
    /\ today.day < call.first.day + MaxClockDays \/ today.ms + ClockStep < 86400000
    /\ today' = IF today.ms + ClockStep < 86400000
                THEN DateV(today.day, today.ms + ClockStep)
                ELSE DateV(today.day + 1, today.ms + ClockStep - 86400000)
    /\ UNCHANGED <<appVars, tz, reads, call, ret>>

NextGen == GenCall \/ Tick

SpecGen == InitGen /\ [][NextGen]_vars

-----------------------------------------------------------------------------
(* The component: the load effect, the filter controls and the render.     *)

Arr(items) == [isArray |-> TRUE, items |-> items]
NotAnArray == [isArray |-> FALSE, items |-> <<>>]

Rec(lat, long, id, stevner) ==
    [isNull |-> FALSE, lat |-> lat, long |-> long, skytterlag_id |-> id,
     stevner |-> stevner]

\* a null element of the dataset array
NullRecord ==
    [isNull |-> TRUE, lat |-> Undefined, long |-> Undefined,
     skytterlag_id |-> UndefinedId, stevner |-> NotAnArray]

\* an event the dataset itself carries; a missing date is the empty string
RealEvent(id, date) ==
    [id |-> id, name |-> "Banestevne", rsvpOpen |-> TRUE, attendees |-> 12,
     maxAttendees |-> 40, date |-> date]

June(d) == Text([year |-> 2025, month |-> 6, day |-> d])

DataRecords ==
    {Rec(Num(60), Num(10), Str(<<"A">>), NotAnArray),
     Rec(Num(63), Num(11), Str(<<"a">>), Arr(<<>>)),
     Rec(Num(58), Num(6), Str(<<"B">>),
         Arr(<<RealEvent(<<"B", "-", "0">>, June(14)),
               RealEvent(<<"B", "-", "1">>, <<>>),
               RealEvent(<<"B", "-", "2">>, June(16))>>)),
     Rec(Num(70), Num(25), Str(<<"C">>),
         Arr(<<RealEvent(<<"C", "-", "0">>, June(15)),
               RealEvent(<<"C", "-", "1">>, NotADate)>>)),
     Rec(Num(61), Num(9), UndefinedId, NotAnArray),
     Rec(Num(45), Num(10), Str(<<"D">>), NotAnArray),
     Rec(Undefined, Num(10), Str(<<"D">>), NotAnArray),
     Rec(Num(60), Num(0), Str(<<"D">>), NotAnArray),
     NullRecord}

RECURSIVE SeqsUpTo(_, _)
SeqsUpTo(S, n) ==
    IF n = 0 THEN {<<>>}
    ELSE LET shorter == SeqsUpTo(S, n - 1)
         IN  shorter \cup {Append(q, x) : q \in shorter, x \in S}

\* response bodies: arrays of at most MaxRecords records, or not an array
Bodies == {Arr(q) : q \in SeqsUpTo(DataRecords, MaxRecords)} \cup {NotAnArray}

\* the filter callback of the load effect, lines 98-106
hasCoords(d) ==
    /\ d.lat.t = "number"
    /\ d.long.t = "number"
    /\ d.lat.n # 0
    /\ d.long.n # 0
    /\ d.lat.n > 50
    /\ d.lat.n < 90
    /\ d.long.n > -180
    /\ d.long.n < 180

\* Array.isArray(data) ? data.filter(...) : []; reading d.lat of a null
\* element throws a TypeError
withCoords(data) ==
    IF ~data.isArray THEN Returned(<<>>)
    ELSE IF \E k \in DOMAIN data.items : data.items[k].isNull THEN Thrown
    ELSE Returned(SelectSeq(data.items, hasCoords))

\* the records with the events attached, unless attaching them threw
attached(rs, evs) ==
    IF \E k \in DOMAIN rs : evs[k].threw THEN Thrown
    ELSE Returned([k \in DOMAIN rs |-> [rs[k] EXCEPT !.stevner = Arr(evs[k].value)]])

\* the map callback: the record with its own events, or generated ones
stevnerOf(r, idx, now) ==
    IF r.stevner.isArray /\ Len(r.stevner.items) > 0 THEN Returned(r.stevner.items)
    ELSE generateStevnerForRange(r, idx - 1, now)

\* withCoords.map(...): the k-th callback finds the clock at clocks[k]
withStevner(rs, clocks) ==
    attached(rs, [k \in DOMAIN rs |-> stevnerOf(rs[k], k, clocks[k])])

withStevnerOf(kept, clocks) ==
    IF kept.threw THEN Thrown ELSE withStevner(kept.value, clocks)

\* the second .then callback up to setRanges
normalize(data, clocks) == withStevnerOf(withCoords(data), clocks)

\* the callbacks that the map runs on the data
callbacks(kept) == IF kept.threw THEN 0 ELSE Len(kept.value)

\* The clock while n callbacks run one after the other: it stays within the
\* day, or midnight passes before one of them.
Midnight(now) == DateV(now.day + 1, 0)

ClockReadings(now, n) ==
    {[k \in 1..n |-> IF k < j THEN now ELSE Midnight(now)] : j \in 1..(n + 1)}

\* r.stevner.some((ev) => isEventWithinRange(ev.date)): stops at the first
\* event that is within the range, throws if a call before that throws
RECURSIVE some(_, _, _, _)
someNext(within, events, k, start, end) ==
    IF within.threw THEN Throw
    ELSE IF within.value THEN Return(TRUE)
    ELSE some(events, k + 1, start, end)

some(events, k, start, end) ==
    IF k > Len(events) THEN Return(FALSE)
    ELSE someNext(isEventWithinRange(events[k].date, start, end), events, k, start, end)

isShown(r, start, end) ==
    IF r.stevner.isArray THEN some(r.stevner.items, 1, start, end) ELSE Return(FALSE)

\* Array.prototype.filter: the elements whose test returned true, in order;
\* an exception of a test is the exception of the filter
kept(test, x, rest) ==
    IF test.threw \/ rest.threw THEN Thrown
    ELSE Returned((IF test.value THEN <<x>> ELSE <<>>) \o rest.value)

RECURSIVE filterRanges(_, _, _, _)
filterRanges(rs, k, start, end) ==
    IF k > Len(rs) THEN Returned(<<>>)
    ELSE kept(isShown(rs[k], start, end), rs[k], filterRanges(rs, k + 1, start, end))

\* the body of the visibleRanges memo
visibleRanges(rs, start, end) ==
    IF start = <<>> /\ end = <<>> THEN Returned(rs)
    ELSE filterRanges(rs, 1, start, end)

\* the dependency list of the visibleRanges memo; isEventWithinRange is a
\* callback that changes exactly when startDate or endDate does
memoDeps(rs, start, end) == <<rs, start, end>>

\* r.stevner.filter((ev) => isEventWithinRange(ev.date))
RECURSIVE filterEvents(_, _, _, _)
filterEvents(events, k, start, end) ==
    IF k > Len(events) THEN Returned(<<>>)
    ELSE kept(isEventWithinRange(events[k].date, start, end), events[k],
              filterEvents(events, k + 1, start, end))

\* the list of events of a marker's popup, lines 292-310
popupEvents(r, start, end) ==
    IF ~(r.stevner.isArray /\ Len(r.stevner.items) > 0) THEN Returned(<<>>)
    ELSE IF start # <<>> \/ end # <<>> THEN filterEvents(r.stevner.items, 1, start, end)
    ELSE Returned(r.stevner.items)

Crashed == [screen |-> "crashed", markers |-> <<>>]

LoadingView == [screen |-> "loading", markers |-> <<>>]
ErrorView == [screen |-> "error", markers |-> <<>>]

MapView(shown, popups) ==
    [screen |-> "map",
     markers |-> [k \in DOMAIN shown |-> [range |-> shown[k], popup |-> popups[k].value]]]

\* One render of App after a state update: the memo cell is recomputed when
\* a dependency changed, then the screen is built.  An exception thrown while
\* rendering unmounts the tree: nothing is shown and the work of that render
\* is discarded.
Rerender(rs, ld, er, start, end) ==
    \E computed \in {IF memo.deps # memoDeps(rs, start, end)
                     THEN visibleRanges(rs, start, end)
                     ELSE Returned(memo.value)} :
        IF computed.threw THEN memo' = memo /\ view' = Crashed
        ELSE \E popups \in {[k \in DOMAIN computed.value |->
                                popupEvents(computed.value[k], start, end)]} :
                 IF ld
                 THEN /\ memo' = [deps |-> memoDeps(rs, start, end), value |-> computed.value]
                      /\ view' = LoadingView
                 ELSE IF ~er.isNull
                 THEN /\ memo' = [deps |-> memoDeps(rs, start, end), value |-> computed.value]
                      /\ view' = ErrorView
                 ELSE IF \E k \in DOMAIN popups : popups[k].threw
                 THEN memo' = memo /\ view' = Crashed
                 ELSE /\ memo' = [deps |-> memoDeps(rs, start, end), value |-> computed.value]
                      /\ view' = MapView(computed.value, popups)

Init ==
    /\ pc = "fetch"
    /\ Mounted
    /\ today = DateV(MakeDay(2025, 5, 1), 12 * 3600000)
    /\ tz \in TimeZones
    /\ reads = <<>>
    /\ call = <<>>
    /\ ret = <<>>

\* fetch("/shooting-range-data.json") settles: it rejects, or a response
\* arrives whose status and body the data source decides
FetchSettles ==
    /\ pc = "fetch"
    /\ \/ /\ response' = [outcome |-> "network_error", data |-> NotAnArray]
          /\ failedAt' = "fetch"
          /\ pc' = "catch"
       \/ /\ \E o \in {"not_ok", "bad_json"} :
                 response' = [outcome |-> o, data |-> NotAnArray]
          /\ pc' = "then1"
          /\ UNCHANGED failedAt
       \/ /\ \E b \in Bodies : response' = [outcome |-> "ok", data |-> b]
          /\ pc' = "then1"
          /\ UNCHANGED failedAt
    /\ UNCHANGED <<ranges, loading, error, startDate, endDate, filtersOpen, memo,
                   view, today, tz, reads, call, ret>>

\* .then((res) => { if (!res.ok) throw ...; return res.json(); })
Then1 ==
    /\ pc = "then1"
    /\ IF response.outcome = "not_ok"
       THEN failedAt' = "status" /\ pc' = "catch"
       ELSE failedAt' = failedAt /\ pc' = "json"
    /\ UNCHANGED <<response, ranges, loading, error, startDate, endDate, filtersOpen,
                   memo, view, today, tz, reads, call, ret>>

\* res.json() settles
JsonSettles ==
    /\ pc = "json"
    /\ IF response.outcome = "bad_json"
       THEN failedAt' = "json" /\ pc' = "catch"
       ELSE failedAt' = failedAt /\ pc' = "then2"
    /\ UNCHANGED <<response, ranges, loading, error, startDate, endDate, filtersOpen,
                   memo, view, today, tz, reads, call, ret>>

\* .then((data) => { ...; setRanges(withStevner); })
Then2 ==
    /\ pc = "then2"
    /\ \E clocks \in ClockReadings(today, callbacks(withCoords(response.data))) :
       \E n \in {normalize(response.data, clocks)} :
           /\ reads' = clocks
           /\ today' = IF clocks = <<>> THEN today ELSE clocks[Len(clocks)]
           /\ IF n.threw
              THEN /\ failedAt' = "normalize"
                   /\ pc' = "catch"
                   /\ UNCHANGED <<ranges, memo, view>>
              ELSE /\ ranges' = n.value
                   /\ pc' = "finally"
                   /\ Rerender(n.value, loading, error, startDate, endDate)
                   /\ UNCHANGED failedAt
    /\ UNCHANGED <<response, loading, error, startDate, endDate, filtersOpen,
                   tz, call, ret>>

message(step) ==
    CASE step = "fetch" -> "Failed to fetch"
      [] step = "status" -> "Failed to load data"
      [] step = "json" -> "Unexpected token"
      [] step = "normalize" -> "Cannot read properties"

\* .catch((e) => setError(e.message))
Catch ==
    /\ pc = "catch"
    /\ error' = [isNull |-> FALSE, message |-> message(failedAt)]
    /\ pc' = "finally"
    /\ Rerender(ranges, loading, error', startDate, endDate)
    /\ UNCHANGED <<response, failedAt, ranges, loading, startDate, endDate,
                   filtersOpen, today, tz, reads, call, ret>>

\* .finally(() => setLoading(false))
Finally ==
    /\ pc = "finally"
    /\ loading' = FALSE
    /\ pc' = "done"
    /\ Rerender(ranges, FALSE, error, startDate, endDate)
    /\ UNCHANGED <<response, failedAt, ranges, error, startDate, endDate,
                   filtersOpen, today, tz, reads, call, ret>>

\* the button of the filter panel: setFiltersOpen((v) => !v)
ToggleFilters ==
    /\ view.screen = "map"
    /\ filtersOpen' = ~filtersOpen
    /\ Rerender(ranges, loading, error, startDate, endDate)
    /\ UNCHANGED <<pc, response, failedAt, ranges, loading, error, startDate,
                   endDate, today, tz, reads, call, ret>>

\* days the user can pick in the calendar
PickerDates == {DateOf(2025, 6, 15, 0), DateOf(2025, 6, 21, 0)}

NoDate == Null

\* what DayPicker hands to onSelect: undefined, or {from, to} with either
\* side possibly undefined
PickerRanges ==
    {[defined |-> FALSE, from |-> NoDate, to |-> NoDate]}
        \cup [defined : {TRUE}, from : PickerDates \cup {NoDate},
              to : PickerDates \cup {NoDate}]

\* DayPicker onSelect, lines 220-228
Select(range) ==
    /\ view.screen = "map"
    /\ filtersOpen
    /\ startDate' = IF range.defined /\ range.from # NoDate
                    THEN formatDateLocal(range.from) ELSE <<>>
    /\ endDate' = IF range.defined /\ range.to # NoDate
                  THEN formatDateLocal(range.to) ELSE <<>>
    /\ Rerender(ranges, loading, error, startDate', endDate')
    /\ UNCHANGED <<pc, response, failedAt, ranges, loading, error, filtersOpen,
                   today, tz, reads, call, ret>>

\* the Nullstill button of the calendar's footer
Reset ==
    /\ view.screen = "map"
    /\ filtersOpen
    /\ startDate # <<>> \/ endDate # <<>>
    /\ startDate' = <<>>
    /\ endDate' = <<>>
    /\ Rerender(ranges, loading, error, <<>>, <<>>)
    /\ UNCHANGED <<pc, response, failedAt, ranges, loading, error, filtersOpen,
                   today, tz, reads, call, ret>>

Next ==
    \/ FetchSettles
    \/ Then1
    \/ JsonSettles
    \/ Then2
    \/ Catch
    \/ Finally
    \/ ToggleFilters
    \/ \E range \in PickerRanges : Select(range)
    \/ Reset

Spec == Init /\ [][Next]_vars

\* The promise chain runs to its end: a settled promise's reactions are run,
\* and the request settles.
FairSpec ==
    /\ Spec
    /\ WF_vars(FetchSettles) /\ WF_vars(Then1) /\ WF_vars(JsonSettles)
    /\ WF_vars(Then2) /\ WF_vars(Catch) /\ WF_vars(Finally)

-----------------------------------------------------------------------------
(* Properties of the filter, checked under SpecFilter.                     *)

FilterActive == call.start # <<>> \/ call.end # <<>>

\* C1: under an active filter, a call in which the event date, the start
\* bound or the end bound is a malformed non-empty string does not throw and
\* returns false.
C1_MalformedExcluded ==
    (/\ ret # <<>>
     /\ FilterActive
     /\ Malformed(call.dateStr) \/ Malformed(call.start) \/ Malformed(call.end))
        => ret[1] = Return(FALSE)

\* What the interval [start, end] of calendar days, either bound possibly
\* absent, says about the calendar day of dateStr.
InInterval(dateStr, start, end) ==
    /\ start = <<>> \/ ~Earlier(CalendarOf(dateStr), CalendarOf(start))
    /\ end = <<>> \/ ~Earlier(CalendarOf(end), CalendarOf(dateStr))

\* C2: for a well-formed event date and well-formed or empty bounds the
\* filter returns true exactly when the date is on or after start and on or
\* before end, both inclusive; with both bounds empty it returns true for
\* every input, the empty string included.
C2_InclusiveBounds ==
    ret # <<>> =>
        /\ ~FilterActive => ret[1] = Return(TRUE)
        /\ (/\ call.dateStr \in WellFormedTexts
            /\ call.start \in WellFormedTexts \cup {<<>>}
            /\ call.end \in WellFormedTexts \cup {<<>>})
              => ret[1] = Return(InInterval(call.dateStr, call.start, call.end))

\* A single-day range that includes the event dated on that day.
C2_Witness ==
    /\ ret # <<>>
    /\ call.start = Text(Civil(MakeDay(2025, 5, 15)))
    /\ call.end = call.start
    /\ call.dateStr = call.start
    /\ ret[1] = Return(TRUE)

-----------------------------------------------------------------------------
(* Properties of the codec, checked under SpecCodec.                       *)

\* C9: decoding the encoding of any local Date yields a Date, not null, with
\* the same local year, month and day.
C9_RoundTrip ==
    ret # <<>> =>
        /\ ret[1].date.kind = "date"
        /\ Civil(ret[1].date.day) = Civil(call.date.day)

-----------------------------------------------------------------------------
(* Properties of the generator, checked under SpecGen.                     *)

Calls == DOMAIN ret

\* an event without its date
Undated(e) == [id |-> e.id, name |-> e.name, rsvpOpen |-> e.rsvpOpen,
               attendees |-> e.attendees, maxAttendees |-> e.maxAttendees]

UndatedAll(out) == [threw |-> out.threw,
                    value |-> [k \in DOMAIN out.value |-> Undated(out.value[k])]]

\* C5: any two calls with the same (range, index) return the same output in
\* every field, the dates included, whatever else differs between the calls.
C5_Deterministic ==
    \A i, j \in Calls : ret[i].out = ret[j].out

\* C5, amended: two calls with the same (range, index) made on the same
\* local calendar day return the same output in every field; calls made on
\* different days agree in every field but the dates.
C5_DeterministicPerDay ==
    \A i, j \in Calls :
        /\ ret[i].now.day = ret[j].now.day => ret[i].out = ret[j].out
        /\ UndatedAll(ret[i].out) = UndatedAll(ret[j].out)

\* Two calls at different times of one day, and events were generated.
C5_Witness ==
    /\ Len(ret) = 2
    /\ ret[1].now.day = ret[2].now.day
    /\ ret[1].now.ms = 0
    /\ ret[2].now.ms > 0
    /\ Len(ret[1].out.value) = 2

\* C6: every generated event has maxAttendees in {40, 60, 80, 100} and
\* 0 <= attendees <= maxAttendees, registration open or closed.
C6_AttendeeInvariant ==
    \A k \in Calls : \A n \in DOMAIN ret[k].out.value :
        LET e == ret[k].out.value[n]
        IN  /\ e.maxAttendees \in {40, 60, 80, 100}
            /\ 0 <= e.attendees
            /\ e.attendees <= e.maxAttendees

\* A call that generated an event with open and one with closed registration.
C6_Witness ==
    \E k \in Calls :
        /\ call.index > 0
        /\ Len(ret[k].out.value) = 2
        /\ ret[k].out.value[1].rsvpOpen # ret[k].out.value[2].rsvpOpen

\* C7: an odd index yields no event; an even index and a non-empty
\* identifier yield 1 + ((code of the first character + index) mod 2) events,
\* numbered 0, 1, ... in their ids; "ABC" at index 0 yields two.
C7_EventCount ==
    \A k \in Calls :
        LET id == call.range.skytterlag_id
            out == ret[k].out
        IN  /\ call.index % 2 = 1 => out = Returned(<<>>)
            /\ (call.index % 2 = 0 /\ id.t = "string" /\ id.s # <<>>) =>
                  /\ ~out.threw
                  /\ Len(out.value) = 1 + ((CharCode(id.s[1]) + call.index) % 2)
                  /\ \A n \in DOMAIN out.value :
                         out.value[n].id = id.s \o <<"-">> \o ToStr(n - 1)
            /\ (call.index = 0 /\ id = Str(<<"A", "B", "C">>)) => Len(out.value) = 2

\* The scenario of the identifier "ABC" at index 0.
C7_Witness ==
    /\ ret # <<>>
    /\ call.index = 0
    /\ call.range.skytterlag_id = Str(<<"A", "B", "C">>)
    /\ Len(ret[1].out.value) = 2
    /\ ret[1].out.value[2].id = <<"A", "B", "C", "-", "1">>

\* C8: for the empty identifier the generator does not throw and takes the
\* first character code to be 0: one event at an even index, none at an odd.
C8_EmptyIdOneEvent ==
    \A k \in Calls :
        call.range.skytterlag_id = Str(<<>>) =>
            /\ ~ret[k].out.threw
            /\ Len(ret[k].out.value) = IF call.index % 2 = 0 THEN 1 ELSE 0

\* C8, amended: for the empty identifier the generator does not throw and
\* returns the empty sequence at every index, even or odd.
C8_EmptyIdNoEvents ==
    \A k \in Calls :
        call.range.skytterlag_id = Str(<<>>) => ret[k].out = Returned(<<>>)

\* The generator was called on the empty identifier at an even index.
C8_Witness ==
    /\ ret # <<>>
    /\ call.range.skytterlag_id = Str(<<>>)
    /\ call.index % 2 = 0
    /\ ~ret[1].out.threw

-----------------------------------------------------------------------------
(* Properties of the component, checked under Spec.                        *)

\* the load ended with the dataset on the map
Loaded == pc = "done" /\ error.isNull

FilterIsActive == startDate # <<>> \/ endDate # <<>>

\* the event's date satisfies the filter
Satisfies(ev) == isEventWithinRange(ev.date, startDate, endDate) = Return(TRUE)

HasEventWithin(r) == \E n \in DOMAIN r.stevner.items : Satisfies(r.stevner.items[n])

\* the ranges the filter's contract makes visible
ExpectedVisible == IF FilterIsActive THEN SelectSeq(ranges, HasEventWithin) ELSE ranges

\* the ranges that have a marker on the screen
ShownRanges == [k \in DOMAIN view.markers |-> view.markers[k].range]

\* C3: after any sequence of selections and resets the visible ranges are
\* all loaded ranges when both bounds are empty, and otherwise exactly the
\* loaded ranges with at least one event whose date satisfies the filter.
C3_VisibleRanges == Loaded => ShownRanges = ExpectedVisible

ExpectedPopup(r) ==
    IF FilterIsActive THEN SelectSeq(r.stevner.items, Satisfies) ELSE r.stevner.items

\* C4: the popup of every visible range lists, under an active filter,
\* exactly the range's events that satisfy the filter, in their order, and
\* all of the range's events when no filter is active.
C4_PopupEvents ==
    Loaded =>
        \A k \in DOMAIN ExpectedVisible :
            /\ k \in DOMAIN view.markers
            /\ view.markers[k].popup = ExpectedPopup(ExpectedVisible[k])

\* C4, second sentence: selecting and resetting leave the stored events alone.
C4_EventsNotMutated == [][pc = "done" => ranges' = ranges]_vars

\* C10: the load ends loaded (no error, ranges the normalized records) or
\* failed (error set, ranges empty), and it fails only when the fetch itself
\* failed: a network error, a response that is not OK or an unparseable body.
C10_LoadLifecycle ==
    /\ pc = "done" =>
          /\ ~loading
          /\ \/ error.isNull /\ ranges = normalize(response.data, reads).value
             \/ ~error.isNull /\ ranges = <<>>
    /\ ~error.isNull => failedAt \in {"fetch", "status", "json"}

\* C10, the rest of it: the load always comes to its end, and nothing changes
\* the outcome afterwards.
C10_Settles == <>(pc = "done")
C10_TerminalIsStable ==
    [][pc = "done" => /\ pc' = "done"
                      /\ ranges' = ranges
                      /\ error' = error
                      /\ loading' = loading]_vars

====
